---- MODULE Spec2Model ----
(***************************************************************************)
(* Model of the hadith data layer: connection manager (client.ts), text    *)
(* normalizer (text.ts), schema migrator (migrate.ts), seeder and DAO      *)
(* (hadith.ts).                                                            *)
(*                                                                         *)
(* Strings are sequences of one-character strings.  The characters stand   *)
(* for the classes the normalizer's regular expressions tell apart:        *)
(*   "F"  a diacritic (U+064B..U+065F)     "_"  tatweel (U+0640)           *)
(*   "E"  alef with hamza / madda          "a"  bare alef                  *)
(*   "Y"  alif maqsura                     "y"  ya                         *)
(*   "T"  ta marbuta                       "h"  ha                         *)
(*   "b"  any other Arabic letter          "x"  a non-Arabic character     *)
(*   " "  space                            "n"  newline (whitespace)       *)
(*   "%"  the ASCII percent sign: a non-Arabic character, and the          *)
(*        any-run wildcard of a LIKE pattern                               *)
(* Identifiers (ids, collection names) use "A", "B", ":" and the digits.   *)
(***************************************************************************)
EXTENDS Integers, Sequences, FiniteSets, TLC

\* ------------------------------------------------------------------ bounds

\* Largest number of items in the bundled seed dataset.
MaxItems == 3
\* Largest number of rows in a legacy (pre-uid) hadith table.
MaxLegacy == 2
\* Largest number of ids passed to setUserSelectedCollections.
MaxSel == 2
\* Largest number of seed items whose INSERT the engine fails in one call.
MaxFaults == 2

\* Longest text given to the normalizer, in characters.
MaxLen == 3
\* Longest run of whitespace around and between two words.
MaxPad == 2
\* Largest number of ids passed to searchHadithWithinCollections.
MaxIds == 2
\* LIMIT 100 of the two search statements.
SearchLimit == 100
\* Number of matching rows beyond SearchLimit in the largest table searched.
MaxOver == 1

\* ------------------------------------------------------------------ text.ts

IsSpace(c) == c \in {" ", "n"}
IsDiacritic(c) == c = "F"
IsTatweel(c) == c = "_"
\* Characters of the block U+0600..U+06FF.
IsArabicBlock(c) == c \in {"F", "_", "E", "a", "Y", "y", "T", "h", "b"}

FilterSeq(s, Keep(_)) == SelectSeq(s, Keep)

MapSeq(s, F(_)) == [i \in 1..Len(s) |-> F(s[i])]

\* The sequence f of length n, every element computed.
Seq1(f, n) == SubSeq(f, 1, n)

RECURSIVE TrimLeft(_)
TrimLeft(s) ==
  IF s # <<>> /\ IsSpace(Head(s)) THEN TrimLeft(Tail(s)) ELSE s

RECURSIVE TrimRight(_)
TrimRight(s) ==
  IF s # <<>> /\ IsSpace(s[Len(s)]) THEN TrimRight(SubSeq(s, 1, Len(s) - 1)) ELSE s

Trim(s) == TrimRight(TrimLeft(s))

\* Mutant: trim() is applied first instead of last.
normalizeTrimFirst(input) ==
  LET s0 == Trim(input)
      s1 == FilterSeq(s0, LAMBDA c : ~IsDiacritic(c))
      s2 == FilterSeq(s1, LAMBDA c : ~IsTatweel(c))
      s3 == MapSeq(s2, LAMBDA c : IF c = "E" THEN "a" ELSE c)
      s4 == MapSeq(s3, LAMBDA c : IF c = "Y" THEN "y" ELSE c)
      s5 == MapSeq(s4, LAMBDA c : IF c = "T" THEN "h" ELSE c)
  IN  FilterSeq(s5, LAMBDA c : IsArabicBlock(c) \/ IsSpace(c))

normalizeArabicText(input) ==
  LET s1 == FilterSeq(input, LAMBDA c : ~IsDiacritic(c))
      s2 == FilterSeq(s1, LAMBDA c : ~IsTatweel(c))
      s3 == MapSeq(s2, LAMBDA c : IF c = "E" THEN "a" ELSE c)
      s4 == MapSeq(s3, LAMBDA c : IF c = "Y" THEN "y" ELSE c)
      s5 == MapSeq(s4, LAMBDA c : IF c = "T" THEN "h" ELSE c)
      s6 == FilterSeq(s5, LAMBDA c : IsArabicBlock(c) \/ IsSpace(c))
  IN  Trim(s6)

\* String.prototype.split(/\s+/): the pieces between maximal whitespace runs,
\* empty pieces at either end included.
RECURSIVE SplitWs(_, _)
SplitWs(s, cur) ==
  IF s = <<>> THEN <<cur>>
  ELSE IF IsSpace(Head(s))
       THEN <<cur>> \o SplitWs(TrimLeft(s), <<>>)
       ELSE SplitWs(Tail(s), Append(cur, Head(s)))

\* Mutant: the pieces are not filtered.
tokenizeWithoutFilter(input) == SplitWs(normalizeArabicText(input), <<>>)

tokenizeArabicText(input) ==
  FilterSeq(SplitWs(normalizeArabicText(input), <<>>), LAMBDA t : t # <<>>)

RECURSIVE JoinWith(_, _)
JoinWith(tokens, sep) ==
  IF tokens = <<>> THEN <<>>
  ELSE IF Len(tokens) = 1 THEN tokens[1]
       ELSE tokens[1] \o sep \o JoinWith(Tail(tokens), sep)

tokensToSearchKeys(tokens) == JoinWith(tokens, <<" ">>)

\* JSON.stringify of an array of strings.
JsonStringify(tokens) ==
  <<"[">> \o JoinWith(MapSeq(tokens, LAMBDA t : <<"\"">> \o t \o <<"\"">>), <<",">>)
         \o <<"]">>

\* ------------------------------------------------------------------ store

\* SQL NULL in a text column.
NULL == <<"NULL">>
\* meta has no row for the key 'seeded'.
NoFlag == <<"none">>

\* The database file: schema (tables, the uid column, indexes), the journal
\* mode, and the rows of the four tables.  hadith is kept in rowid order; the
\* collections rows all have name = id, version and description NULL, so the
\* table is the set of its ids.
EmptyDb ==
  [ wal |-> FALSE,
    tMeta |-> FALSE, tCollections |-> FALSE, tHadith |-> FALSE, tUsc |-> FALSE,
    hasUid |-> FALSE,
    ixCollection |-> FALSE, ixSearch |-> FALSE, ixUid |-> FALSE,
    seeded |-> NoFlag,
    collections |-> {},
    hadith |-> <<>>,
    selected |-> {} ]

Range(s) == {s[i] : i \in 1..Len(s)}

\* Two rows hold the same non-NULL uid.
HasDuplicateUid(rows) ==
  \E i, j \in 1..Len(rows) :
    i < j /\ rows[i].uid # NULL /\ rows[i].uid = rows[j].uid

\* ------------------------------------------------------------------ statements

Stmt(kind, arg, caught, ifNoUid) ==
  [kind |-> kind, arg |-> arg, caught |-> caught, ifNoUid |-> ifNoUid]
Sql(kind) == Stmt(kind, <<>>, FALSE, FALSE)
SqlArg(kind, arg) == Stmt(kind, arg, FALSE, FALSE)

\* Statements that change the database (all others only read or set a
\* connection-level option).
WriteKinds ==
  { "pragmaWal", "createMeta", "createCollections", "createHadith", "alterAddUid",
    "backfillUid", "createIdxCollection", "createIdxSearch", "createIdxUid",
    "createUsc", "backfillCollections", "upsertCollection", "insertHadith",
    "setSeeded", "deleteUsc", "insertUsc" }

\* The engine accepts the statement in database d (its tables and columns
\* exist, its constraints hold).
CanExec(s, d) ==
  CASE s.kind = "selectSeeded" -> d.tMeta
    [] s.kind = "setSeeded" -> d.tMeta
    [] s.kind = "countHadith" -> d.tHadith
    [] s.kind = "upsertCollection" -> d.tCollections
    [] s.kind = "insertHadith" -> d.tHadith /\ d.hasUid
    [] s.kind = "alterAddUid" -> d.tHadith /\ ~d.hasUid
    [] s.kind = "backfillUid" -> d.tHadith /\ d.hasUid
    [] s.kind = "createIdxCollection" -> d.tHadith
    [] s.kind = "createIdxSearch" -> d.tHadith
    [] s.kind = "createIdxUid" ->
         d.tHadith /\ d.hasUid /\ (d.ixUid \/ ~HasDuplicateUid(d.hadith))
    [] s.kind = "backfillCollections" -> d.tCollections /\ d.tHadith
    [] s.kind = "deleteUsc" -> d.tUsc
    [] s.kind = "insertUsc" -> d.tUsc
    [] s.kind = "selectUsc" -> d.tUsc
    [] s.kind = "selectHadith" -> d.tHadith
    [] OTHER -> TRUE

\* Mutant: INSERT OR IGNORE, the row already holding the uid stays.
InsertOrIgnoreHadith(d, row) ==
  IF d.ixUid /\ \E i \in 1..Len(d.hadith) : d.hadith[i].uid = row.uid
  THEN d.hadith
  ELSE Append(d.hadith, row)

\* INSERT OR REPLACE INTO hadith: with the unique index on uid in place the
\* row holding the same uid is deleted first; the new row gets a new rowid.
InsertOrReplaceHadith(d, row) ==
  LET kept == IF d.ixUid
              THEN SelectSeq(d.hadith, LAMBDA r : r.uid # row.uid)
              ELSE d.hadith
  IN  Append(kept, row)

\* UPDATE hadith SET uid = collection || ':' || id WHERE uid IS NULL
BackfillUid(rows) ==
  [i \in 1..Len(rows) |->
     IF rows[i].uid = NULL
     THEN [rows[i] EXCEPT !.uid = rows[i].collection \o <<":">> \o rows[i].id]
     ELSE rows[i]]

\* --- SELECT ... FROM hadith WHERE ... ORDER BY ... LIMIT ...

DigitChars == <<"0", "1", "2", "3", "4", "5", "6", "7", "8", "9">>
IsDigit(c) == \E d \in 1..Len(DigitChars) : DigitChars[d] = c
DigitValue(c) == (CHOOSE d \in 1..Len(DigitChars) : DigitChars[d] = c) - 1

\* The byte value of an identifier character (the BINARY collation compares
\* text bytewise).
CharCode(c) ==
  IF IsDigit(c) THEN 48 + DigitValue(c)
  ELSE CASE c = ":" -> 58 [] c = "A" -> 65 [] c = "B" -> 66 [] OTHER -> 200

RECURSIVE TextLess(_, _)
TextLess(a, b) ==
  IF b = <<>> THEN FALSE
  ELSE IF a = <<>> THEN TRUE
  ELSE IF Head(a) # Head(b) THEN CharCode(Head(a)) < CharCode(Head(b))
  ELSE TextLess(Tail(a), Tail(b))

RECURSIVE CastDigits(_, _)
CastDigits(s, acc) ==
  IF s = <<>> \/ ~IsDigit(Head(s)) THEN acc
  ELSE CastDigits(Tail(s), acc * 10 + DigitValue(Head(s)))

\* CAST(text AS INTEGER): the value of the longest prefix of digits after
\* leading whitespace, 0 when there is none.
CastInteger(s) == CastDigits(TrimLeft(s), 0)

\* text LIKE pattern, "%" matching any run of characters.  (The pattern's
\* other special characters are ASCII too and not part of the alphabet.)
RECURSIVE Like(_, _)
Like(text, pattern) ==
  IF pattern = <<>> THEN text = <<>>
  ELSE IF Head(pattern) = "%"
       THEN Like(text, Tail(pattern)) \/ (text # <<>> /\ Like(Tail(text), pattern))
       ELSE text # <<>> /\ Head(text) = Head(pattern) /\ Like(Tail(text), Tail(pattern))

\* A SELECT on hadith: the WHERE terms in use, the ORDER BY terms, the LIMIT
\* (0: none).
Select(like, inIds, eq, orderBy, limit) ==
  SqlArg("selectHadith",
         [like |-> like, inIds |-> inIds, eq |-> eq, orderBy |-> orderBy, limit |-> limit])
NoTerm == <<"no term">>
NoQuery == Select(NoTerm, NoTerm, NoTerm, {}, 0).arg

Where(r, q) ==
  /\ q.like # NoTerm => Like(r.search_keys, q.like)
  /\ q.inIds # NoTerm => r.collection \in Range(q.inIds)
  /\ q.eq # NoTerm => r.collection = q.eq

\* The ORDER BY key of a row: the terms, in the order the statements of
\* hadith.ts use them.
OrderKey(r, orderBy) ==
  [collection |-> IF "collection" \in orderBy THEN r.collection ELSE <<>>,
   castId |-> IF "CAST(id AS INTEGER)" \in orderBy THEN CastInteger(r.id) ELSE 0,
   id |-> IF "id" \in orderBy THEN r.id ELSE <<>>]

KeyLess(k1, k2) ==
  \/ TextLess(k1.collection, k2.collection)
  \/ k1.collection = k2.collection /\ k1.castId < k2.castId
  \/ k1.collection = k2.collection /\ k1.castId = k2.castId /\ TextLess(k1.id, k2.id)

\* The rows of keep (positions in rows, whose ORDER BY keys are key) in
\* ORDER BY order, rows of equal key in rowid order.
Sorted(key, keep) ==
  LET n == Len(key)
      rank == Seq1([i \in 1..n |->
                     IF i \in keep
                     THEN 1 + Cardinality({j \in keep :
                                             \/ KeyLess(key[j], key[i])
                                             \/ ~KeyLess(key[i], key[j]) /\ j < i})
                     ELSE 0], n)
      m == Cardinality(keep)
  IN  Seq1([p \in 1..m |-> CHOOSE i \in keep : rank[i] = p], m)

\* The sets of positions of the sorted sequence o that hold rows of one
\* key, where there are several.
TieGroups(key, o) ==
  LET m == Len(o)
      k == Seq1([p \in 1..m |-> key[o[p]]], m)
      tied == {p \in 1..m : \/ p < m /\ k[p + 1] = k[p]
                            \/ p > 1 /\ k[p - 1] = k[p]}
  IN  {{p2 \in tied : k[p2] = k[p]} : p \in tied}

\* Rows of equal key come in an order the engine chooses: o with the rows
\* of each group rearranged in every way.
RECURSIVE TieOrders(_, _)
TieOrders(o, groups) ==
  IF groups = {} THEN {o}
  ELSE LET g == CHOOSE x \in groups : TRUE
           perms == {f \in [g -> g] : \A a, b \in g : f[a] = f[b] => a = b}
       IN  {Seq1([p \in 1..Len(o) |-> IF p \in g THEN o2[f[p]] ELSE o2[p]], Len(o)) :
              o2 \in TieOrders(o, groups \ {g}), f \in perms}

\* The row sequences the engine may return for the SELECT q on table rows.
Rows(rows, q) ==
  LET n == Len(rows)
      keep == {i \in 1..n : Where(rows[i], q)}
      key == Seq1([i \in 1..n |-> OrderKey(rows[i], q.orderBy)], n)
      sorted == Sorted(key, keep)
      len(o) == IF q.limit > 0 /\ Len(o) > q.limit THEN q.limit ELSE Len(o)
  IN  {Seq1([p \in 1..len(o) |-> rows[o[p]]], len(o)) :
         o \in TieOrders(sorted, TieGroups(key, sorted))}

\* The database after the statement.
Apply(s, d) ==
  CASE s.kind = "pragmaWal" -> [d EXCEPT !.wal = TRUE]
    [] s.kind = "createMeta" -> [d EXCEPT !.tMeta = TRUE]
    [] s.kind = "createCollections" -> [d EXCEPT !.tCollections = TRUE]
    [] s.kind = "createHadith" -> [d EXCEPT !.tHadith = TRUE]
    [] s.kind = "alterAddUid" -> [d EXCEPT !.hasUid = TRUE]
    [] s.kind = "backfillUid" -> [d EXCEPT !.hadith = BackfillUid(@)]
    [] s.kind = "createIdxCollection" -> [d EXCEPT !.ixCollection = TRUE]
    [] s.kind = "createIdxSearch" -> [d EXCEPT !.ixSearch = TRUE]
    [] s.kind = "createIdxUid" -> [d EXCEPT !.ixUid = TRUE]
    [] s.kind = "createUsc" -> [d EXCEPT !.tUsc = TRUE]
    [] s.kind = "backfillCollections" ->
         [d EXCEPT !.collections = @ \cup {r.collection : r \in Range(d.hadith)}]
    [] s.kind = "upsertCollection" -> [d EXCEPT !.collections = @ \cup {s.arg}]
    [] s.kind = "insertHadith" ->
         [d EXCEPT !.hadith = InsertOrReplaceHadith(d, s.arg.row)]
    [] s.kind = "setSeeded" -> [d EXCEPT !.seeded = <<"1">>]
    [] s.kind = "deleteUsc" -> [d EXCEPT !.selected = {}]
    [] s.kind = "insertUsc" -> [d EXCEPT !.selected = @ \cup {s.arg}]
    [] OTHER -> d

\* ------------------------------------------------------------------ client.ts

\* errors.ts: what a thrown error carries.  type is "DBError" or "engine" (an
\* error of the SQLite binding); meta is the DBError's meta ([sql, params],
\* or NoMeta for undefined); cause is the type of the error it wraps; stmt
\* is the statement whose execution failed (NoStmt when it was the opening
\* of the database).
NoMeta == [sql |-> "undefined", params |-> <<>>]
NoStmt == [kind |-> "none", arg |-> <<>>, caught |-> FALSE, ifNoUid |-> FALSE]
NoError ==
  [type |-> "none", message |-> "", meta |-> NoMeta, cause |-> "none", stmt |-> NoStmt]

EngineError(s) ==
  [type |-> "engine", message |-> "engine", meta |-> NoMeta, cause |-> "none", stmt |-> s]

DBError(message, meta, cause) ==
  [type |-> "DBError", message |-> message, meta |-> meta, cause |-> cause.type,
   stmt |-> cause.stmt]

\* The state of one call in progress.  work is the database as the
\* connection sees it, disk the committed database (they differ only inside
\* a transaction); k is the ordinal of the next statement handed to the
\* engine; status is "run", or how the call ended: "DBError", "raw" (an
\* engine error not yet wrapped), "crash" (the process died).  path and
\* query is the SELECT on hadith the call executed, if any.  path and
\* rowlog record which branch seedDatabaseIfEmpty took and what became of
\* each seed item ("inserted", "failed", "invalid"); env records that the
\* environment broke the call: it failed a statement other than the INSERT
\* of a seed item, failed to open the database, or killed the process.
Start(d, c) ==
  [ work |-> d, disk |-> d, inTx |-> FALSE,
    open |-> c.open, fk |-> c.fk,
    status |-> "run", k |-> 1,
    writes |-> 0, inserted |-> 0, skipped |-> 0,
    colExists |-> FALSE, rb |-> "none", path |-> "none", rowlog |-> <<>>,
    env |-> FALSE, err |-> NoError, query |-> NoQuery ]

\* What the environment does to a call: the ordinal of a statement the
\* engine fails (0: none), the seed items whose INSERT it fails, the ordinal
\* before which the process dies (0: never), whether ROLLBACK reports an
\* error, whether opening the database fails.
Plan(failAt, rows, crashAt, rbFails, openFails) ==
  [ failAt |-> failAt, rows |-> rows, crashAt |-> crashAt,
    rbFails |-> rbFails, openFails |-> openFails ]

\* The environment fails statement s, the next one of the call.
EngineFails(st, s, f) ==
  \/ st.k = f.failAt
  \/ s.kind = "insertHadith" /\ s.arg.item \in f.rows

getDatabaseConnection(st, f) ==
  IF st.open THEN st
  ELSE IF f.openFails
       THEN [st EXCEPT !.status = "DBError", !.env = TRUE,
                       !.err = DBError("Failed to open the local database.", NoMeta,
                                       EngineError(NoStmt))]
       ELSE [st EXCEPT !.open = TRUE]

\* connection.execute(sql, params): one statement handed to the engine.  A
\* failing statement changes nothing.
Execute(st, s, f) ==
  IF st.status # "run" THEN st
  ELSE IF f.crashAt = st.k THEN [st EXCEPT !.status = "crash", !.env = TRUE]
  ELSE IF EngineFails(st, s, f) \/ ~CanExec(s, st.work)
            \/ (s.kind = "begin" /\ st.inTx) \/ (s.kind = "commit" /\ ~st.inTx)
       THEN [st EXCEPT !.status = "raw", !.k = @ + 1,
                       !.env = @ \/ (st.k = f.failAt /\ s.kind # "insertHadith"),
                       !.err = EngineError(s)]
  ELSE LET w == Apply(s, st.work)
       IN  [st EXCEPT
              !.k = @ + 1,
              !.work = w,
              !.disk = IF s.kind = "commit" \/ ~(st.inTx \/ s.kind = "begin")
                       THEN w ELSE @,
              !.inTx = IF s.kind = "begin" THEN TRUE
                       ELSE IF s.kind = "commit" THEN FALSE ELSE @,
              !.fk = IF s.kind = "pragmaFk" THEN TRUE ELSE @,
              !.colExists = IF s.kind = "tableInfoUid"
                            THEN st.work.tHadith /\ st.work.hasUid ELSE @,
              !.writes = IF s.kind \in WriteKinds THEN @ + 1 ELSE @,
              !.query = IF s.kind = "selectHadith" THEN s.arg ELSE @]

\* Mutant: the engine's error leaves runSql as it is.
runSqlUnwrapped(st, s, f) == Execute(getDatabaseConnection(st, f), s, f)

\* Both the opening of the database and the statement are inside the try.
runSql(st, s, f) ==
  LET c == getDatabaseConnection(st, f)
      r == Execute(c, s, f)
  IN  IF r.status \in {"raw", "DBError"}
      THEN [r EXCEPT !.status = "DBError",
                     !.err = DBError("SQL execution failed.",
                                     [sql |-> s.kind, params |-> s.arg],
                                     [r.err EXCEPT !.stmt = s])]
      ELSE r

\* Mutant: the seeding loop has no try/catch.
StepWithoutCatch(st, s, f) ==
  IF st.status # "run" THEN st
  ELSE IF s.kind = "skipInvalid"
       THEN [st EXCEPT !.skipped = @ + 1, !.rowlog = Append(@, "invalid")]
  ELSE IF s.ifNoUid /\ st.colExists THEN st
  ELSE LET r == runSql(st, s, f)
       IN  IF s.caught /\ r.status = "run"
           THEN [r EXCEPT !.inserted = @ + 1, !.rowlog = Append(@, "inserted")]
           ELSE r

\* One step of a handler's body: a statement through runSql; a statement
\* guarded by the columnExists test; a statement inside the seeding loop's
\* try/catch; an invalid seed item, which is counted and issues no statement.
Step(st, s, f) ==
  IF st.status # "run" THEN st
  ELSE IF s.kind = "skipInvalid"
       THEN [st EXCEPT !.skipped = @ + 1, !.rowlog = Append(@, "invalid")]
  ELSE IF s.ifNoUid /\ st.colExists THEN st
  ELSE LET r == runSql(st, s, f)
       IN  IF ~s.caught THEN r
           ELSE IF r.status = "DBError"
                THEN [r EXCEPT !.status = "run", !.skipped = @ + 1,
                               !.rowlog = Append(@, "failed"), !.err = NoError]
           ELSE IF r.status = "run"
                THEN [r EXCEPT !.inserted = @ + 1, !.rowlog = Append(@, "inserted")]
           ELSE r

\* The steps of prog in order, until one ends the call (the first half,
\* then the second half from where the first half left off).
RECURSIVE RunStmts(_, _, _)
RunStmts(st, prog, f) ==
  IF prog = <<>> \/ st.status # "run" THEN st
  ELSE IF Len(prog) = 1 THEN Step(st, prog[1], f)
  ELSE LET half == Len(prog) \div 2
       IN  RunStmts(RunStmts(st, SubSeq(prog, 1, half), f),
                    SubSeq(prog, half + 1, Len(prog)), f)

\* Mutant: the failed transaction's writes are committed instead of undone.
RollbackKeepsWrites(st, f) ==
  [st EXCEPT !.k = @ + 1, !.disk = st.work, !.inTx = FALSE,
             !.rb = "ok", !.status = "DBError",
             !.err = DBError("Database transaction failed.", NoMeta, st.err)]

\* db.execute("ROLLBACK") in the catch block; its own error is swallowed.
\* The engine reports an error when no transaction is active: BEGIN never
\* succeeded, or the engine had already rolled back on the failure.  Either
\* way the uncommitted writes are gone afterwards.
Rollback(st, f) ==
  IF f.crashAt = st.k THEN [st EXCEPT !.status = "crash", !.env = TRUE]
  ELSE [st EXCEPT
          !.k = @ + 1,
          !.work = st.disk,
          !.inTx = FALSE,
          !.rb = IF ~st.inTx \/ f.rbFails THEN "failed" ELSE "ok",
          !.status = "DBError",
          !.err = DBError("Database transaction failed.", NoMeta, st.err)]

\* Mutant: the error of a failing ROLLBACK leaves the catch block in place of
\* the DBError.
runTransactionRollbackThrows(st, doWork, f) ==
  LET c == getDatabaseConnection(st, f)
      b == Execute(c, Sql("begin"), f)
      w == RunStmts(b, doWork, f)
      m == Execute(w, Sql("commit"), f)
      r == Rollback(m, f)
  IN  IF c.status # "run" THEN c
      ELSE IF m.status \in {"raw", "DBError"}
           THEN IF r.rb = "failed"
                THEN [r EXCEPT !.status = "raw", !.err = EngineError(Sql("rollback"))]
                ELSE r
      ELSE m

\* Mutant: the work runs without BEGIN/COMMIT, every statement committing
\* on its own.
runWithoutTransaction(st, doWork, f) ==
  RunStmts(getDatabaseConnection(st, f), doWork, f)

runTransaction(st, doWork, f) ==
  LET c == getDatabaseConnection(st, f)
      b == Execute(c, Sql("begin"), f)
      w == RunStmts(b, doWork, f)
      m == Execute(w, Sql("commit"), f)
  IN  IF c.status # "run" THEN c
      ELSE IF m.status \in {"raw", "DBError"} THEN Rollback(m, f)
      ELSE m

\* ------------------------------------------------------------------ migrate.ts

\* The body of the migration transaction.  tableInfoUid is columnExists'
\* PRAGMA table_info; the two statements marked ifNoUid run only when it
\* found no uid column.
MigrationBody ==
  << Sql("createMeta"),
     Sql("createCollections"),
     Sql("createHadith"),
     Sql("tableInfoUid"),
     Stmt("alterAddUid", <<>>, FALSE, TRUE),
     Stmt("backfillUid", <<>>, FALSE, TRUE),
     Sql("createIdxCollection"),
     Sql("createIdxSearch"),
     Sql("createIdxUid"),
     Sql("createUsc"),
     Sql("backfillCollections") >>

runMigrations(st, f) ==
  LET p == RunStmts(st, <<Sql("pragmaWal"), Sql("pragmaFk")>>, f)
  IN  IF p.status # "run" THEN p ELSE runTransaction(p, MigrationBody, f)

\* ------------------------------------------------------------------ hadith.ts

SeedItem(id, collection, text_ar, tokens) ==
  [id |-> id, collection |-> collection, text_ar |-> text_ar, tokens |-> tokens]

\* Mutant: text_ar is not looked at.
isValidIgnoringText(item) == item.id # <<>> /\ item.collection # <<>>

isValidSeedItem(item) ==
  item.id # <<>> /\ item.collection # <<>> /\ item.text_ar # <<>>

\* Mutant: the search keys are the words of text_ar as written.
HadithRowWithRawKeys(item) ==
  [ id |-> item.id,
    collection |-> item.collection,
    text_ar |-> item.text_ar,
    text_norm |-> normalizeArabicText(item.text_ar),
    tokens_json |-> JsonStringify(tokenizeArabicText(item.text_ar)),
    search_keys |-> tokensToSearchKeys(
                      FilterSeq(SplitWs(item.text_ar, <<>>), LAMBDA t : t # <<>>)),
    uid |-> item.collection \o <<":">> \o item.id ]

\* The row the seeding loop builds for a valid item (tokens = <<>> stands
\* for a missing or empty tokens list).
HadithRowOf(item) ==
  LET normalizedTokens ==
        IF item.tokens # <<>>
        THEN FilterSeq(MapSeq(item.tokens, normalizeArabicText), LAMBDA t : t # <<>>)
        ELSE tokenizeArabicText(item.text_ar)
  IN  [ id |-> item.id,
        collection |-> item.collection,
        text_ar |-> item.text_ar,
        text_norm |-> normalizeArabicText(item.text_ar),
        tokens_json |-> JsonStringify(normalizedTokens),
        search_keys |-> tokensToSearchKeys(normalizedTokens),
        uid |-> item.collection \o <<":">> \o item.id ]

\* Array.from(new Set(items.filter(isValidSeedItem).map(it => it.collection))):
\* the collections of the valid items, each once, in order of first occurrence.
uniqueCollections(items) ==
  LET n == Len(items)
      isFirst(i) ==
        /\ isValidSeedItem(items[i])
        /\ \A j \in 1..(i - 1) :
             ~(isValidSeedItem(items[j]) /\ items[j].collection = items[i].collection)
      first == SelectSeq(Seq1([i \in 1..n |-> i], n), isFirst)
  IN  Seq1([k \in 1..Len(first) |-> items[first[k]].collection], Len(first))

upsertCollection(collectionId) == SqlArg("upsertCollection", collectionId)

\* The loop over the seed items inside the seeding transaction.
ImportLoop(items) ==
  [i \in 1..Len(items) |->
     IF isValidSeedItem(items[i])
     THEN Stmt("insertHadith", [row |-> HadithRowOf(items[i]), item |-> i], TRUE, FALSE)
     ELSE Sql("skipInvalid")]

\* The work of the seeding transaction: the loop, then the flag.
ImportBody(items) == ImportLoop(items) \o <<Sql("setSeeded")>>

\* Mutant: the flag is never recognised.
SeededFlagIgnored(d) == FALSE

SeededFlagIsSet(d) == d.seeded = <<"1">>

\* Mutant: existing rows are not looked at.
HadithCountIgnored(d) == FALSE

HadithIsPopulated(d) == Len(d.hadith) > 0

\* Mutant: the flag is written ahead of the transaction.
seedFlagBeforeImport(st, items, f) ==
  LET s1 == Step(st, Sql("selectSeeded"), f)
      s2 == Step(s1, Sql("countHadith"), f)
      s3 == RunStmts([s2 EXCEPT !.path = "import"],
                     MapSeq(uniqueCollections(items), upsertCollection)
                       \o <<Sql("setSeeded")>>, f)
  IN  IF s1.status # "run" THEN s1
      ELSE IF s1.work.seeded = <<"1">> THEN [s1 EXCEPT !.path = "flag"]
      ELSE IF s2.status # "run" THEN s2
      ELSE IF Len(s2.work.hadith) > 0
           THEN Step([s2 EXCEPT !.path = "legacy"], Sql("setSeeded"), f)
      ELSE IF s3.status # "run" THEN s3
      ELSE runTransaction(s3, ImportLoop(items), f)

seedDatabaseIfEmpty(st, items, f) ==
  LET s1 == Step(st, Sql("selectSeeded"), f)
      s2 == Step(s1, Sql("countHadith"), f)
      s3 == RunStmts([s2 EXCEPT !.path = "import"],
                     MapSeq(uniqueCollections(items), upsertCollection), f)
  IN  IF s1.status # "run" THEN s1
      ELSE IF SeededFlagIsSet(s1.work) THEN [s1 EXCEPT !.path = "flag"]
      ELSE IF s2.status # "run" THEN s2
      ELSE IF HadithIsPopulated(s2.work)
           THEN Step([s2 EXCEPT !.path = "legacy"], Sql("setSeeded"), f)
      ELSE IF s3.status # "run" THEN s3
      ELSE runTransaction(s3, ImportBody(items), f)

\* Mutant: the ids are added to the selection, nothing is deleted.
setWithoutDelete(st, collectionIds, f) ==
  runTransaction(st, MapSeq(collectionIds, LAMBDA id : SqlArg("insertUsc", id)), f)

setUserSelectedCollections(st, collectionIds, f) ==
  runTransaction(st,
    <<Sql("deleteUsc")>> \o MapSeq(collectionIds, LAMBDA id : SqlArg("insertUsc", id)),
    f)

getUserSelectedCollections(st, f) == runSql(st, Sql("selectUsc"), f)

\* Mutant: ORDER BY id, the text as stored.
listOrderedByText(st, collectionId, f) ==
  runSql(st, Select(NoTerm, NoTerm, collectionId, {"id"}, 0), f)

listHadithByCollection(st, collectionId, f) ==
  runSql(st, Select(NoTerm, NoTerm, collectionId, {"CAST(id AS INTEGER)"}, 0), f)

LikePattern(q) == <<"%">> \o q \o <<"%">>

\* Mutant: the query text goes into the pattern as typed.
searchWithoutNormalizing(st, queryText, f) ==
  runSql(st, Select(LikePattern(queryText), NoTerm, NoTerm,
                    {"collection", "CAST(id AS INTEGER)"}, SearchLimit), f)

searchHadithByText(st, queryText, f) ==
  LET q == normalizeArabicText(queryText)
  IN  runSql(st, Select(LikePattern(q), NoTerm, NoTerm,
                        {"collection", "CAST(id AS INTEGER)"}, SearchLimit), f)

\* Mutant: an empty ids list is sent to the engine as IN ().
searchWithinAlwaysFiltered(st, queryText, collectionIds, f) ==
  runSql(st, Select(LikePattern(normalizeArabicText(queryText)), collectionIds, NoTerm,
                    {"collection", "CAST(id AS INTEGER)"}, SearchLimit), f)

searchHadithWithinCollections(st, queryText, collectionIds, f) ==
  LET q == normalizeArabicText(queryText)
  IN  IF Len(collectionIds) = 0
      THEN searchHadithByText(st, queryText, f)
      ELSE runSql(st, Select(LikePattern(q), collectionIds, NoTerm,
                             {"collection", "CAST(id AS INTEGER)"}, SearchLimit), f)

\* ------------------------------------------------------------------ inputs

SeqsUpTo(S, n) == UNION {[1..m -> S] : m \in 0..n}

Text1 == <<"b", "F", " ", "E", "_">>
Text2 == <<"T", "x", "n", " ", "Y">>
Tokens2 == << <<"b", "F">>, <<"x">> >>

ItemA1 == SeedItem(<<"1">>, <<"A">>, Text1, <<>>)
\* Same (collection, id) as ItemA1, other text, with its own tokens list.
ItemA1b == SeedItem(<<"1">>, <<"A">>, Text2, Tokens2)
ItemB2 == SeedItem(<<"2">>, <<"B">>, Text1, <<>>)
ItemNoText == SeedItem(<<"1">>, <<"B">>, <<>>, <<>>)
ItemNoId == SeedItem(<<>>, <<"A">>, Text1, <<>>)
ItemNoCollection == SeedItem(<<"2">>, <<>>, Text2, <<>>)

\* Two items whose collection and id differ and contain the separator of
\* the uid.
ItemAc1_2 == SeedItem(<<"2">>, <<"A", ":", "1">>, Text1, <<>>)
ItemA_1c2 == SeedItem(<<"1", ":", "2">>, <<"A">>, Text2, <<>>)

\* The seed datasets tried: empty, valid items only, the same (collection,
\* id) twice, valid items mixed with each kind of invalid item, items with
\* the separator in their keys.
SeedCatalogue ==
  { <<>>,
    <<ItemAc1_2, ItemA_1c2>>,
    <<ItemA1>>,
    <<ItemNoText>>,
    <<ItemA1, ItemA1b>>,
    <<ItemA1, ItemB2>>,
    <<ItemNoId, ItemB2>>,
    <<ItemA1b, ItemNoCollection>>,
    <<ItemA1, ItemNoText, ItemB2>>,
    <<ItemA1b, ItemB2, ItemA1>>,
    <<ItemNoId, ItemNoCollection, ItemNoText>>,
    <<ItemA1, ItemA1b, ItemNoId, ItemB2>>,
    <<ItemB2, ItemA1, ItemNoText, ItemA1b>> }

SeedDatasets == {d \in SeedCatalogue : Len(d) <= MaxItems}

\* A row of a hadith table written before the uid column existed.
LegacyRowOf(item) == [HadithRowOf(item) EXCEPT !.uid = NULL]
LegacyRows == {LegacyRowOf(ItemA1), LegacyRowOf(ItemB2)}
LegacySeeds == {<<ItemA1, ItemB2>>}

\* A database left by a build older than the uid column: a hadith table
\* without uid and without primary key, and no collections row.
LegacyDb(rows, withTables) ==
  [EmptyDb EXCEPT !.tHadith = TRUE, !.hadith = rows,
                  !.tMeta = withTables, !.tCollections = withTables]

SelIds == {<<"A">>, <<"B">>}

\* --- datasets and inputs of the queries

Text3 == <<"Y", "T", "x", " ", " ", "b", "F">>
\* A tokens list that covers the words of Text1.
Tokens1 == << <<"b">>, <<"E", "_">> >>

ItemA10 == SeedItem(<<"1", "0">>, <<"A">>, Text1, <<>>)
ItemA2 == SeedItem(<<"2">>, <<"A">>, Text3, <<>>)
\* Same numeric id as ItemA2, another uid.
ItemA02 == SeedItem(<<"0", "2">>, <<"A">>, Text1, <<>>)
ItemB1 == SeedItem(<<"1">>, <<"B">>, Text1, <<>>)
ItemB3 == SeedItem(<<"3">>, <<"B">>, Text1, Tokens1)

RECURSIVE Digits(_)
Digits(i) ==
  IF i < 10 THEN <<DigitChars[i + 1]>>
  ELSE Digits(i \div 10) \o <<DigitChars[(i % 10) + 1]>>

\* n items of collection "A" with ids n down to 1, after one of "B"; every
\* search key holds "b".
BigSeed(n) ==
  <<ItemB1>> \o [i \in 1..n |-> SeedItem(Digits(n + 1 - i), <<"A">>, <<"b">>, <<>>)]

QueryDatasets ==
  { <<ItemA10, ItemB1, ItemA2>>,
    <<ItemB1, ItemA10, ItemA02, ItemA2>>,
    <<ItemA1b, ItemB2>>,
    <<ItemB3, ItemA2>>,
    BigSeed(SearchLimit + MaxOver) }

\* The whitespace-delimited words of a text.
WordsOf(text) == {w \in Range(SplitWs(text, <<>>)) : w # <<>>}

\* The query texts tried on a store seeded from items: each word of each
\* text as written, the empty query, a wildcard, a non-Arabic character, two
\* words in and out of order.
QueryTexts(items) ==
  UNION {WordsOf(items[i].text_ar) : i \in 1..Len(items)}
    \cup { <<>>, <<"%">>, <<"x", "a">>, <<"b", " ", "a">>, <<"a", " ", "b">>,
           <<"h", " ", "b">> }

\* The sets of at most MaxFaults of the first m seed items.
RowFaults(m) == {S \in SUBSET (1..m) : Cardinality(S) <= MaxFaults}

\* The environments of a call whose fault-free run issues n statements and
\* loops over m seed items: a failing statement (and what ROLLBACK then
\* reports), or the process dying (with at most one INSERT failing before),
\* or the database not opening; a failing statement comes with INSERTs of
\* seed items failing.
FaultPlans(n, m) ==
  {Plan(k, S, 0, rb, FALSE) : k \in 0..n, S \in RowFaults(m), rb \in BOOLEAN}
    \cup {Plan(0, S, c, FALSE, FALSE) :
            S \in {T \in RowFaults(m) : Cardinality(T) <= 1}, c \in 1..(n + 1)}
    \cup {Plan(0, {}, 0, FALSE, TRUE)}

NoFaults == Plan(0, {}, 0, FALSE, FALSE)

\* The environments of a query: none, the statement failing, the process
\* dying, the database not opening.
QueryFaults ==
  { NoFaults, Plan(1, {}, 0, FALSE, FALSE), Plan(0, {}, 1, FALSE, FALSE),
    Plan(0, {}, 0, FALSE, TRUE) }

\* ------------------------------------------------------------------ state

VARIABLES
  db,        \* the database file (committed state)
  conn,      \* cachedConnection: whether it is open, and its foreign_keys option
  seedData,  \* the bundled seed dataset
  last,      \* the outcome of the latest call
  app        \* the App component: its React state and where its bootstrap is

vars == <<db, conn, seedData, last, app>>

\* op: the function called; res: "ok", "DBError" or "crash"; path: the branch
\* seedDatabaseIfEmpty took; wrote: some statement changed the database
\* (committed or not); rb: "none", or how the ROLLBACK went; rowlog: what
\* became of each seed item; inserted, skipped: the seeding counters; after:
\* the call before this one was the same function (for getSelected: was
\* setSelected) and returned normally; arg: the ids given to
\* setUserSelectedCollections (carried over to the getSelected that follows
\* it); out: the ids getUserSelectedCollections returned; env: the
\* environment broke the call (see Start); err: the error the call raised.
NoCall ==
  [ op |-> "none", res |-> "none", path |-> "none", wrote |-> FALSE,
    inserted |-> 0, skipped |-> 0, rb |-> "none", rowlog |-> <<>>,
    after |-> FALSE, arg |-> <<>>, out |-> <<>>, env |-> FALSE, err |-> NoError ]

Closed == [open |-> FALSE, fk |-> FALSE]

\* errorMessage is null.
NoMessage == "null"

\* The App component as mounted: the useState defaults; pc is the step of
\* initializeDatabase about to run ("mount": the effect has not run yet;
\* "idle": initializeDatabase is not running); ran lists the steps of the
\* current attempt with their outcomes; caught is the message of the error
\* on its way to the catch block. Two history fields span the attempts and
\* the deaths of the process: failedImport, the latest seedDatabaseIfEmpty
\* step entered the fresh import and did not return; retry, the latest
\* seedDatabaseIfEmpty step was the first one after such a step.
AppMount ==
  [ isReady |-> FALSE, errorMessage |-> NoMessage, items |-> <<>>,
    pc |-> "mount", ran |-> <<>>, caught |-> NoMessage,
    failedImport |-> FALSE, retry |-> FALSE ]

InitFresh ==
  /\ db = EmptyDb
  /\ seedData \in SeedDatasets

InitLegacy ==
  /\ seedData \in LegacySeeds
  /\ \E rows \in SeqsUpTo(LegacyRows, MaxLegacy), withTables \in BOOLEAN :
       db = LegacyDb(rows, withTables)

Init ==
  /\ InitFresh \/ InitLegacy
  /\ conn = Closed
  /\ last = NoCall
  /\ app = AppMount

\* The call ended in state r: what it leaves behind.
Done(op, r, after, arg, out) ==
  /\ db' = IF r.status = "crash" THEN r.disk ELSE r.work
  /\ conn' = IF r.status = "crash" THEN Closed ELSE [open |-> r.open, fk |-> r.fk]
  /\ last' = [ op |-> op,
               res |-> IF r.status = "run" THEN "ok" ELSE r.status,
               path |-> r.path, wrote |-> r.writes > 0,
               inserted |-> r.inserted, skipped |-> r.skipped,
               rb |-> r.rb, rowlog |-> r.rowlog,
               after |-> after /\ last.res = "ok",
               arg |-> arg,
               out |-> IF r.status = "run" THEN out ELSE <<>>,
               env |-> r.env,
               err |-> IF r.status = "crash" THEN NoError ELSE r.err ]
  /\ UNCHANGED seedData

\* A call made outside the bootstrap.
Finish(op, r, after, arg, out) ==
  /\ Done(op, r, after, arg, out)
  /\ UNCHANGED app

Length(r) == r.k - 1

Migrate ==
  \E n \in {Length(runMigrations(Start(db, conn), NoFaults))} :
    \E f \in FaultPlans(n, 0) :
      \E r \in {runMigrations(Start(db, conn), f)} :
        Finish("migrate", r, last.op = "migrate", <<>>, <<>>)

Seed ==
  \E n \in {Length(seedDatabaseIfEmpty(Start(db, conn), seedData, NoFaults))} :
    \E f \in FaultPlans(n, IF n > 2 THEN Len(seedData) ELSE 0) :
      \E r \in {seedDatabaseIfEmpty(Start(db, conn), seedData, f)} :
        Finish("seed", r, last.op = "seed", <<>>, <<>>)

SetSelected ==
  \E ids \in SeqsUpTo(SelIds, MaxSel) :
    \E n \in {Length(setUserSelectedCollections(Start(db, conn), ids, NoFaults))} :
      \E f \in FaultPlans(n, 0) :
        \E r \in {setUserSelectedCollections(Start(db, conn), ids, f)} :
          Finish("setSelected", r, last.op = "setSelected", ids, <<>>)

\* The rows come back in an order the engine chooses.
GetSelected ==
  \E f \in FaultPlans(1, 0) :
    \E r \in {getUserSelectedCollections(Start(db, conn), f)} :
      \E out \in {o \in [1..Cardinality(r.work.selected) -> r.work.selected] :
                    \A i, j \in DOMAIN o : o[i] = o[j] => i = j} :
        Finish("getSelected", r, last.op = "setSelected",
               IF last.op = "setSelected" /\ last.res = "ok" THEN last.arg ELSE <<>>,
               out)

\* A start of the app on which nothing but INSERTs of seed items (at most
\* one of the first MaxFaults) fails: runMigrations, then
\* seedDatabaseIfEmpty.
Install ==
  \E f \in {NoFaults} \cup
           {Plan(0, {i}, 0, FALSE, FALSE) : i \in 1..MaxFaults} :
    \E m \in {runMigrations(Start(db, conn), f)} :
      \E r \in {seedDatabaseIfEmpty([m EXCEPT !.k = 1], seedData, f)} :
        /\ last.op = "none"
        /\ Finish("seed", r, FALSE, <<>>, <<>>)

\* The queries write nothing, so what one returns does not depend on the
\* queries before it: a behaviour issues one, on the store as installed or
\* as found.
NoQueryYet == last.op \in {"none", "seed"}

\* A query ended in state r: the rows it returns are the engine's choice.
FinishQuery(op, r, arg) ==
  \E out \in (IF r.status = "run" THEN Rows(r.work.hadith, r.query) ELSE {<<>>}) :
    Finish(op, r, FALSE, arg, out)

SearchByText ==
  /\ NoQueryYet
  /\ \E q \in QueryTexts(seedData) :
       \E f \in QueryFaults :
         \E r \in {searchHadithByText(Start(db, conn), q, f)} :
           FinishQuery("searchByText", r, [q |-> q, ids |-> <<>>])

SearchWithin ==
  /\ NoQueryYet
  /\ \E q \in QueryTexts(seedData), ids \in SeqsUpTo(SelIds, MaxIds) :
       \E f \in QueryFaults :
         \E r \in {searchHadithWithinCollections(Start(db, conn), q, ids, f)} :
           FinishQuery("searchWithin", r, [q |-> q, ids |-> ids])

ListByCollection ==
  /\ NoQueryYet
  /\ \E c \in SelIds :
       \E f \in QueryFaults :
         \E r \in {listHadithByCollection(Start(db, conn), c, f)} :
           FinishQuery("list", r, [q |-> c, ids |-> <<>>])

\* Queries on a store seeded from one of the query datasets.
InitQuery ==
  /\ db = EmptyDb
  /\ seedData \in QueryDatasets
  /\ conn = Closed
  /\ last = NoCall
  /\ app = AppMount

NextQuery == Install \/ SearchByText \/ SearchWithin \/ ListByCollection

SpecQuery == InitQuery /\ [][NextQuery]_vars

\* --- the text functions on their own

TextChars == {"F", "_", "E", "a", "Y", "y", "T", "h", "b", "x", " ", "n"}
WsRuns(lo, hi) == UNION {[1..m -> {" ", "n"}] : m \in lo..hi}
\* Words tried in pairs: an Arabic letter, a Latin letter, a diacritic alone,
\* an alef with hamza, a letter with a diacritic, a Latin letter with tatweel.
PairWords == { <<"b">>, <<"x">>, <<"F">>, <<"E">>, <<"b", "F">>, <<"x", "_">> }
\* Two words with whitespace before, between and after.
PaddedPairs ==
  { pre \o w1 \o mid \o w2 \o post :
      pre \in WsRuns(0, MaxPad), mid \in WsRuns(1, MaxPad), post \in WsRuns(0, MaxPad),
      w1 \in PairWords, w2 \in PairWords }
TextInputs == SeqsUpTo(TextChars, MaxLen) \cup PaddedPairs

InitText ==
  /\ db = EmptyDb /\ conn = Closed /\ seedData = <<>> /\ app = AppMount
  /\ \E s \in TextInputs : last = [NoCall EXCEPT !.arg = s]

\* normalizeArabicText on the input text, or on what it returned before
\* (after: its argument was its own result).
Normalize ==
  /\ last.op \in {"none", "normalize"} /\ ~last.after
  /\ \E input \in {IF last.op = "none" THEN last.arg ELSE last.out} :
       last' = [NoCall EXCEPT !.op = "normalize", !.res = "ok", !.arg = input,
                              !.out = normalizeArabicText(input),
                              !.after = last.op = "normalize"]
  /\ UNCHANGED <<db, conn, seedData, app>>

Tokenize ==
  /\ last.op = "none"
  /\ last' = [NoCall EXCEPT !.op = "tokenize", !.res = "ok", !.arg = last.arg,
                            !.out = tokenizeArabicText(last.arg)]
  /\ UNCHANGED <<db, conn, seedData, app>>

NextText == Normalize \/ Tokenize

SpecText == InitText /\ [][NextText]_vars

\* --- App.tsx: the bootstrap

\* The collection of the initial view ("Bukhari" in App.tsx).
Bukhari == <<"B">>

\* Mutant: the error of a step is swallowed and the next step runs.
NextStepIgnoringError(step, res) ==
  CASE step = "runMigrations" -> "seedDatabaseIfEmpty"
    [] step = "seedDatabaseIfEmpty" -> "listHadithByCollection"
    [] OTHER -> "finally"

\* Where the try block goes after a step: to the next statement, or to the
\* catch block when the step raised.
NextStep(step, res) ==
  IF res # "ok" THEN "catch"
  ELSE CASE step = "runMigrations" -> "seedDatabaseIfEmpty"
         [] step = "seedDatabaseIfEmpty" -> "listHadithByCollection"
         [] OTHER -> "finally"

\* The component after a step of the try block that ended in state r (a
\* dead process starts again with the component as mounted).
AfterStep(step, r, rows) ==
  LET res == IF r.status = "run" THEN "ok" ELSE r.status
      seed == step = "seedDatabaseIfEmpty"
      failed == IF seed THEN r.path = "import" /\ res # "ok" ELSE app.failedImport
      retry == seed /\ app.failedImport
      next == IF r.status = "crash" THEN AppMount
              ELSE [app EXCEPT !.ran = Append(@, [step |-> step, res |-> res]),
                               !.pc = NextStep(step, res),
                               !.caught = IF res = "ok" THEN @ ELSE r.err.message,
                               !.items = IF step = "listHadithByCollection" /\ res = "ok"
                                         THEN rows ELSE @]
  IN  [next EXCEPT !.failedImport = failed, !.retry = retry]

\* initializeDatabase begins: setIsReady(false), setErrorMessage(null).
initializeDatabase ==
  /\ app' = [app EXCEPT !.isReady = FALSE, !.errorMessage = NoMessage,
                        !.pc = "runMigrations", !.ran = <<>>, !.caught = NoMessage]
  /\ UNCHANGED <<db, conn, seedData, last>>

\* The effect of the mounted component.
Mount == app.pc = "mount" /\ initializeDatabase

\* The Try Again button, rendered while errorMessage is set.
TryAgain == app.pc = "idle" /\ app.errorMessage # NoMessage /\ initializeDatabase

BootMigrate ==
  /\ app.pc = "runMigrations"
  /\ \E n \in {Length(runMigrations(Start(db, conn), NoFaults))} :
       \E f \in FaultPlans(n, 0) :
         \E r \in {runMigrations(Start(db, conn), f)} :
           /\ Done("migrate", r, FALSE, <<>>, <<>>)
           /\ app' = AfterStep("runMigrations", r, <<>>)

BootSeed ==
  /\ app.pc = "seedDatabaseIfEmpty"
  /\ \E n \in {Length(seedDatabaseIfEmpty(Start(db, conn), seedData, NoFaults))} :
       \E f \in FaultPlans(n, IF n > 2 THEN Len(seedData) ELSE 0) :
         \E r \in {seedDatabaseIfEmpty(Start(db, conn), seedData, f)} :
           /\ Done("seed", r, FALSE, <<>>, <<>>)
           /\ app' = AfterStep("seedDatabaseIfEmpty", r, <<>>)

BootList ==
  /\ app.pc = "listHadithByCollection"
  /\ \E f \in QueryFaults :
       \E r \in {listHadithByCollection(Start(db, conn), Bukhari, f)} :
         \E out \in (IF r.status = "run" THEN Rows(r.work.hadith, r.query) ELSE {<<>>}) :
           /\ Done("list", r, FALSE, [q |-> Bukhari, ids |-> <<>>], out)
           /\ app' = AfterStep("listHadithByCollection", r, out)

\* The catch block: setErrorMessage(message).
BootCatch ==
  /\ app.pc = "catch"
  /\ app' = [app EXCEPT !.errorMessage = app.caught, !.pc = "finally"]
  /\ UNCHANGED <<db, conn, seedData, last>>

\* The finally block: setIsReady(true).
BootFinally ==
  /\ app.pc = "finally"
  /\ app' = [app EXCEPT !.isReady = TRUE, !.pc = "idle"]
  /\ UNCHANGED <<db, conn, seedData, last>>

NextBoot ==
  Mount \/ TryAgain \/ BootMigrate \/ BootSeed \/ BootList \/ BootCatch \/ BootFinally

\* The app started on a fresh or a legacy database, restarted after every
\* death of the process, the user pressing Try Again after every failure.
SpecBoot == Init /\ [][NextBoot]_vars

\* Bootstrap calls: the seed datasets and the legacy databases vary.
Next == Migrate \/ Seed

Spec == Init /\ [][Next]_vars

\* Selection calls, on a fresh or legacy database with an empty seed dataset.
InitSel ==
  /\ seedData = <<>>
  /\ db \in {EmptyDb, LegacyDb(<<LegacyRowOf(ItemA1)>>, TRUE)}
  /\ conn = Closed
  /\ last = NoCall
  /\ app = AppMount

NextSel == Migrate \/ SetSelected \/ GetSelected

SpecSel == InitSel /\ [][NextSel]_vars

\* ------------------------------------------------------------------ properties

FlagIsOne(d) == d.seeded = <<"1">>

\* The seed items whose INSERT succeeded, by position.
InsertedIdx(log) == {i \in 1..Len(log) : log[i] = "inserted"}

\* The rows an import leaves: per uid the row of the last item whose INSERT
\* succeeded, in the order of those items.
SurvivingRows(items, log) ==
  LET ins == InsertedIdx(log)
      uid(i) == HadithRowOf(items[i]).uid
      keep(i) == i \in ins /\ \A j \in ins : j > i => uid(j) # uid(i)
      idx == SelectSeq([i \in 1..Len(log) |-> i], keep)
  IN  [k \in 1..Len(idx) |-> HadithRowOf(items[idx[k]])]

RowsWithUid(d, u) == {k \in 1..Len(d.hadith) : d.hadith[k].uid = u}

\* C1: a seedDatabaseIfEmpty call that returns normally leaves meta.seeded =
\* "1", and a call that directly follows one that returned normally executes
\* no write statement and leaves the database (hadith rows, collections,
\* meta) exactly as the first call left it.
C1_SeedTwiceSameAsOnce ==
  [][ /\ (last'.op = "seed" /\ last'.res = "ok") => FlagIsOne(db')
      /\ (last'.op = "seed" /\ last'.after) =>
           /\ db' = db
           /\ ~last'.wrote
           /\ FlagIsOne(db')
           /\ last'.res = "ok" => last'.path = "flag" ]_vars

\* C1 witness: on a fresh store a first call imported the 3-item dataset and
\* the second call returned through the flag test.
C1_Witness ==
  /\ last.op = "seed" /\ last.after /\ last.res = "ok" /\ last.path = "flag"
  /\ seedData = <<ItemA1, ItemNoText, ItemB2>>
  /\ Len(db.hadith) = 2

C3_FlagAndRowsCommitTogether ==
  (last.op = "seed" /\ last.path = "import") =>
    \/ /\ ~FlagIsOne(db)
       /\ db.hadith = <<>>
       /\ last.res # "ok"
    \/ /\ FlagIsOne(db)
       /\ Len(last.rowlog) = Len(seedData)
       /\ db.hadith = SurvivingRows(seedData, last.rowlog)

\* C3 witness: the process died inside the import transaction after an
\* INSERT had succeeded; nothing of the import is committed.
C3_Witness ==
  /\ last.op = "seed" /\ last.path = "import" /\ last.res = "crash"
  /\ "inserted" \in Range(last.rowlog)
  /\ db.hadith = <<>> /\ ~FlagIsOne(db)

\* C4: once the unique index of a successful migration exists, no two
\* hadith rows hold the same uid; and after an import, for every item whose
\* INSERT succeeded exactly one row holds its uid, with the data of the last
\* item of that uid whose INSERT succeeded.
C4_UidUnique ==
  /\ db.ixUid => ~HasDuplicateUid(db.hadith)
  /\ (last.op = "seed" /\ last.path = "import" /\ last.res = "ok") =>
       \A i \in InsertedIdx(last.rowlog) :
         LET u == seedData[i].collection \o <<":">> \o seedData[i].id
             same == {j \in InsertedIdx(last.rowlog) :
                        seedData[j].collection \o <<":">> \o seedData[j].id = u}
             latest == CHOOSE j \in same : \A k \in same : k <= j
         IN  /\ Cardinality(RowsWithUid(db, u)) = 1
             /\ \A k \in RowsWithUid(db, u) : db.hadith[k] = HadithRowOf(seedData[latest])

\* C4 witness: two items with the same (collection, id) were both inserted
\* and the row of the later one is the only one left.
C4_Witness ==
  /\ last.op = "seed" /\ last.res = "ok"
  /\ seedData = <<ItemA1, ItemA1b>>
  /\ last.rowlog = <<"inserted", "inserted">>
  /\ db.hadith = <<HadithRowOf(ItemA1b)>>

\* C5 (as claimed): a runMigrations call that the environment does not
\* break succeeds from every starting state, and a call directly after a
\* successful one changes nothing.
C5_MigrationsAlwaysSucceed ==
  [][ /\ (last'.op = "migrate" /\ ~last'.env) => last'.res = "ok"
      /\ (last'.op = "migrate" /\ last'.after /\ last'.res = "ok") => db' = db ]_vars

\* C6: when the catch block of the migration transaction ran (a statement
\* of the transaction, BEGIN or COMMIT failed), runMigrations raises DBError
\* and the database is as before the call, but for the journal mode set
\* ahead of the transaction; a failure the environment did not cause is
\* always of that kind.
C6_MigrationFailureRollsBack ==
  [][ last'.op = "migrate" =>
        /\ last'.rb # "none" =>
             /\ last'.res = "DBError"
             /\ db' = [db EXCEPT !.wal = TRUE]
        /\ (last'.res = "DBError" /\ ~last'.env) => last'.rb # "none"
        /\ last'.res = "ok" => last'.rb = "none" ]_vars

\* C6 witness: the transaction added the uid column and backfilled two rows
\* of a legacy table, failed, and the table is again without uid column.
C6_Witness ==
  /\ last.op = "migrate" /\ last.res = "DBError" /\ last.rb = "ok" /\ ~last.env
  /\ db.tHadith /\ ~db.hasUid /\ ~db.tUsc /\ Len(db.hadith) = 2

\* C7: runTransaction, as used by runMigrations and
\* setUserSelectedCollections: a normal return means the work is committed
\* and no ROLLBACK was issued; once the connection is open every failure
\* goes through the catch block; and when the catch block ran, whether its
\* ROLLBACK succeeded or failed, the caller gets a DBError and nothing of
\* the work is committed.
C7_RunTransaction ==
  [][ last'.op \in {"migrate", "setSelected"} =>
        /\ last'.rb # "none" =>
             /\ last'.res = "DBError"
             /\ db' = [db EXCEPT !.wal = db'.wal]
        /\ (last'.op = "setSelected" /\ last'.res = "DBError" /\ conn'.open) =>
             last'.rb # "none"
        /\ (last'.op = "setSelected" /\ last'.res = "ok") =>
             /\ last'.rb = "none"
             /\ db'.selected = Range(last'.arg)
        /\ (last'.op = "migrate" /\ last'.res = "ok") =>
             /\ last'.rb = "none"
             /\ db'.tMeta /\ db'.tCollections /\ db'.tHadith /\ db'.tUsc
             /\ db'.hasUid /\ db'.ixUid ]_vars

\* C7 witness: setUserSelectedCollections had deleted the selection, failed,
\* the ROLLBACK failed too; DBError, and the earlier selection is in place.
C7_Witness ==
  /\ last.op = "setSelected" /\ last.res = "DBError" /\ last.rb = "failed"
  /\ last.wrote
  /\ db.selected = {<<"A">>, <<"B">>}

\* C8: in a fresh import a failing INSERT never makes seedDatabaseIfEmpty
\* raise (it raises only when the environment breaks another statement);
\* when it returns, the flag is "1", the rows of the items whose INSERT
\* succeeded are in the table, every other item is counted as skipped, and
\* inserted + skipped is the number of items.
C8_RowFailureIsSkipped ==
  (last.op = "seed" /\ last.path = "import") =>
    /\ ~last.env => last.res = "ok"
    /\ last.res = "ok" =>
         /\ FlagIsOne(db)
         /\ Len(last.rowlog) = Len(seedData)
         /\ last.inserted = Cardinality(InsertedIdx(last.rowlog))
         /\ last.inserted + last.skipped = Len(seedData)
         /\ db.hadith = SurvivingRows(seedData, last.rowlog)

\* C8 witness: one INSERT failed, another succeeded, the call returned.
C8_Witness ==
  /\ last.op = "seed" /\ last.path = "import" /\ last.res = "ok"
  /\ "failed" \in Range(last.rowlog) /\ "inserted" \in Range(last.rowlog)
  /\ Len(db.hadith) >= 1 /\ FlagIsOne(db)

\* An item with non-empty id, collection and text_ar.
HasIdCollectionText(item) ==
  Len(item.id) > 0 /\ Len(item.collection) > 0 /\ Len(item.text_ar) > 0

\* C9: after an import in which no INSERT failed, the items with non-empty
\* id, collection and text_ar were inserted and all others skipped, the
\* table holds one row per distinct uid of those items and no other row,
\* the flag is "1", and collections holds exactly their collection values.
C9_EndToEnd ==
  (last.op = "seed" /\ last.path = "import" /\ last.res = "ok"
     /\ "failed" \notin Range(last.rowlog)) =>
    LET valid == {i \in 1..Len(seedData) : HasIdCollectionText(seedData[i])}
        uids == {seedData[i].collection \o <<":">> \o seedData[i].id : i \in valid}
    IN  /\ Len(last.rowlog) = Len(seedData)
        /\ \A i \in 1..Len(seedData) :
             last.rowlog[i] = IF i \in valid THEN "inserted" ELSE "invalid"
        /\ last.inserted = Cardinality(valid)
        /\ last.skipped = Len(seedData) - Cardinality(valid)
        /\ FlagIsOne(db)
        /\ db.collections = {seedData[i].collection : i \in valid}
        /\ Len(db.hadith) = Cardinality(uids)
        /\ {r.uid : r \in Range(db.hadith)} = uids
        /\ \A r \in Range(db.hadith) :
             \E i \in valid : /\ r.id = seedData[i].id
                              /\ r.collection = seedData[i].collection
                              /\ r.text_ar = seedData[i].text_ar

\* C9 witness: the 3-item dataset with one item lacking text_ar.
C9_Witness ==
  /\ last.op = "seed" /\ last.path = "import" /\ last.res = "ok"
  /\ seedData = <<ItemA1, ItemNoText, ItemB2>>
  /\ last.inserted = 2 /\ last.skipped = 1
  /\ db.collections = {<<"A">>, <<"B">>}
  /\ Len(db.hadith) = 2

\* C10: getUserSelectedCollections right after a successful
\* setUserSelectedCollections(ids) returns the ids given, each once, and
\* nothing else; a setUserSelectedCollections that does not return normally
\* leaves the selection as it was.
C10_SelectionReplaced ==
  [][ /\ (last'.op = "getSelected" /\ last'.after /\ last'.res = "ok") =>
           /\ Range(last'.out) = Range(last'.arg)
           /\ Len(last'.out) = Cardinality(Range(last'.arg))
      /\ (last'.op = "setSelected" /\ last'.res = "ok") =>
           db'.selected = Range(last'.arg)
      /\ (last'.op = "setSelected" /\ last'.res # "ok") =>
           db'.selected = db.selected ]_vars

\* C10 witness: the ids were B twice; B comes back once.
C10_Witness ==
  /\ last.op = "getSelected" /\ last.after /\ last.res = "ok"
  /\ last.arg = << <<"B">>, <<"B">> >>
  /\ last.out = << <<"B">> >>

\* C11: whatever leaves runMigrations or seedDatabaseIfEmpty is a DBError,
\* never an error of the engine: a call ends by returning, by raising a
\* DBError, or with the process dead.  The DBError of runSql wraps the error
\* it caught and carries the statement that failed and its parameters; the
\* DBError of runTransaction wraps the error that ended the transaction;
\* the DBError of getDatabaseConnection wraps the engine's error.
C11_OnlyDBError ==
  /\ last.res \in {"none", "ok", "crash", "DBError"}
  /\ last.res = "DBError" <=> last.err.type = "DBError"
  /\ last.res \in {"ok", "crash", "none"} => last.err = NoError
  /\ last.err.message = "SQL execution failed." =>
       /\ last.err.stmt # NoStmt
       /\ last.err.meta = [sql |-> last.err.stmt.kind, params |-> last.err.stmt.arg]
       /\ last.err.cause \in {"engine", "DBError"}
  /\ last.err.message = "Database transaction failed." =>
       /\ last.rb # "none"
       /\ last.err.cause \in {"engine", "DBError"}
  /\ last.err.message = "Failed to open the local database." =>
       last.err.cause = "engine"
  /\ last.err.type = "DBError" =>
       last.err.message \in {"SQL execution failed.", "Database transaction failed.",
                             "Failed to open the local database."}

\* C11 witness: the engine failed the INSERT OR IGNORE of collection "A"
\* ahead of the seeding transaction; the DBError names that statement and
\* its parameter.
C11_Witness ==
  /\ last.op = "seed" /\ last.res = "DBError" /\ last.path = "import"
  /\ last.err.message = "SQL execution failed."
  /\ last.err.meta = [sql |-> "upsertCollection", params |-> <<"A">>]
  /\ last.err.cause = "engine"

\* needle occurs in hay as a contiguous run of characters.
Contains(hay, needle) ==
  \E i \in 0..(Len(hay) - Len(needle)) : SubSeq(hay, i + 1, i + Len(needle)) = needle

\* Row r1 may come before row r2 in the order (collection, numeric id).
InOrder(r1, r2) ==
  \/ TextLess(r1.collection, r2.collection)
  \/ r1.collection = r2.collection /\ CastInteger(r1.id) <= CastInteger(r2.id)

\* out holds the first (at most limit) rows of the set match in the order
\* (collection, numeric id), each once.
IsFirstOf(out, match, limit) ==
  /\ Range(out) \subseteq match
  /\ \A i, j \in 1..Len(out) : i < j => out[i] # out[j] /\ InOrder(out[i], out[j])
  /\ Len(out) = IF Cardinality(match) > limit THEN limit ELSE Cardinality(match)
  /\ \A r \in match \ Range(out) : \A o \in Range(out) : InOrder(o, r)

\* The rows whose search_keys contain the normalized query text.
MatchSet(d, queryText) ==
  {r \in Range(d.hadith) : Contains(r.search_keys, normalizeArabicText(queryText))}

\* C12: searchHadithByText(query), when it returns, returns the rows whose
\* search_keys contain normalizeArabicText(query) as a contiguous substring,
\* in the order (collection, numeric id): all of them when they are at most
\* 100, else the first 100 of that order; it raises only when the
\* environment breaks the call or the hadith table is missing.
C12_SearchByText ==
  last.op = "searchByText" =>
    /\ last.res = "ok" => IsFirstOf(last.out, MatchSet(db, last.arg.q), 100)
    /\ last.res # "ok" => last.env \/ ~db.tHadith

\* C12 witness: 102 rows match "b"; the 100 returned are ids 1 to 100 of
\* collection "A".
C12_Witness ==
  /\ last.op = "searchByText" /\ last.res = "ok" /\ last.arg.q = <<"b">>
  /\ Cardinality(MatchSet(db, <<"b">>)) > 100
  /\ Len(last.out) = 100
  /\ last.out[1].uid = <<"A", ":", "1">>
  /\ last.out[100].uid = <<"A", ":", "1", "0", "0">>

\* The row is in the table and was built from a seed item of the kind Kind.
ImportedFrom(r, Kind(_)) ==
  \E i \in 1..Len(seedData) :
    /\ isValidSeedItem(seedData[i]) /\ HadithRowOf(seedData[i]) = r
    /\ Kind(seedData[i])

\* The search was for the word w of r's text, w has a non-empty normalized
\* form, and at most 100 rows match it.
SearchedWordOf(r, w) ==
  /\ last.op = "searchByText" /\ last.res = "ok" /\ last.arg.q = w
  /\ w \in WordsOf(r.text_ar)
  /\ normalizeArabicText(w) # <<>>
  /\ Cardinality(MatchSet(db, w)) <= 100

\* C13 (as claimed): a search for a word of the text_ar of an imported
\* row, the word having a non-empty normalized form, returns that row when
\* at most 100 rows match, whether or not the seed item had a tokens list.
C13_WordOfTextIsFound ==
  \A r \in Range(db.hadith) : \A w \in WordsOf(r.text_ar) :
    SearchedWordOf(r, w) => r \in Range(last.out)

\* C13 (amended): it does so for the rows of seed items without a tokens
\* list, and for the rows of seed items whose tokens list holds a token
\* with the same normalized form as the word.
C13_WordOfTokenizedTextIsFound ==
  \A r \in Range(db.hadith) : \A w \in WordsOf(r.text_ar) :
    ( /\ SearchedWordOf(r, w)
      /\ ImportedFrom(r, LAMBDA it :
            \/ it.tokens = <<>>
            \/ \E t \in Range(it.tokens) :
                 normalizeArabicText(t) = normalizeArabicText(w)) )
    => r \in Range(last.out)

\* C13 witness: the word is written with alif maqsura, ta marbuta and a
\* Latin letter; the row found holds "yh" in its search keys.
C13_Witness ==
  /\ last.op = "searchByText" /\ last.res = "ok"
  /\ last.arg.q = <<"Y", "T", "x">>
  /\ seedData = <<ItemA10, ItemB1, ItemA2>>
  /\ last.out = <<HadithRowOf(ItemA2)>>

\* C14: searchHadithWithinCollections(q, ids), when it returns: with ids
\* empty it returns what searchHadithByText(q) returns on the same store;
\* with ids non-empty, the rows matching q whose collection is in ids, in
\* the order (collection, numeric id), at most the first 100.
C14_SearchWithin ==
  (last.op = "searchWithin" /\ last.res = "ok") =>
    IF last.arg.ids = <<>>
    THEN LET r == searchHadithByText(Start(db, conn), last.arg.q, NoFaults)
         IN  /\ r.status = "run"
             /\ last.out \in Rows(r.work.hadith, r.query)
             /\ IsFirstOf(last.out, MatchSet(db, last.arg.q), 100)
    ELSE IsFirstOf(last.out,
                   {m \in MatchSet(db, last.arg.q) : m.collection \in Range(last.arg.ids)},
                   100)

\* C14 witness: 101 of the 102 rows matching "b" are of collection "A";
\* the search within "A" returns 100 of them.
C14_Witness ==
  /\ last.op = "searchWithin" /\ last.res = "ok"
  /\ last.arg.q = <<"b">> /\ last.arg.ids = << <<"A">> >>
  /\ Len(last.out) = 100
  /\ last.out[100].uid = <<"A", ":", "1", "0", "0">>

\* C15: listHadithByCollection(c), when it returns, returns the rows of
\* collection c, each once, in ascending order of the numeric value of id.
C15_ListByCollection ==
  (last.op = "list" /\ last.res = "ok") =>
    LET rows == {r \in Range(db.hadith) : r.collection = last.arg.q}
    IN  /\ Range(last.out) = rows
        /\ Len(last.out) = Cardinality(rows)
        /\ \A i, j \in 1..Len(last.out) :
             i < j => CastInteger(last.out[i].id) <= CastInteger(last.out[j].id)

\* C15 witness: id "2" comes before id "10", which was inserted first.
C15_Witness ==
  /\ last.op = "list" /\ last.res = "ok" /\ last.arg.q = <<"A">>
  /\ db.hadith[1] = HadithRowOf(ItemA10)
  /\ last.out = <<HadithRowOf(ItemA2), HadithRowOf(ItemA10)>>

\* C16: normalizeArabicText applied to one of its own results returns it
\* unchanged.
C16_NormalizeIdempotent ==
  (last.op = "normalize" /\ last.after) => last.out = last.arg

\* C16 witness: a text had become "a h" (as "E T" does), and "a h" stayed
\* "a h".
C16_Witness ==
  /\ last.op = "normalize" /\ last.after
  /\ last.arg = <<"a", " ", "h">> /\ last.out = <<"a", " ", "h">>

\* The whitespace-delimited words of a text, in order.
RawWords(text) == FilterSeq(SplitWs(text, <<>>), LAMBDA w : w # <<>>)

\* C17 (as claimed): no token is empty, and a text of two words with
\* whitespace around them gives exactly 2 tokens, whatever the words.
C17_TwoWordsTwoTokens ==
  last.op = "tokenize" =>
    /\ \A i \in 1..Len(last.out) : last.out[i] # <<>>
    /\ Len(RawWords(last.arg)) = 2 => Len(last.out) = 2

\* C17 (amended): no token is empty; the tokens are the normalized forms
\* of the words, without the words whose normalized form is empty; so two
\* words give 2 tokens exactly when both have a non-empty normalized form.
C17_TokensOfNormalizedWords ==
  last.op = "tokenize" =>
    LET words == RawWords(last.arg)
        norm == Seq1(MapSeq(words, normalizeArabicText), Len(words))
    IN  /\ \A i \in 1..Len(last.out) : last.out[i] # <<>>
        /\ last.out = FilterSeq(norm, LAMBDA t : t # <<>>)
        /\ (Len(words) = 2 /\ norm[1] # <<>> /\ norm[2] # <<>>) => Len(last.out) = 2
        /\ (Len(words) = 2 /\ (norm[1] = <<>> \/ norm[2] = <<>>)) => Len(last.out) < 2

\* C17 witness: two words, two spaces before, a newline and a space
\* between, a space after: 2 tokens.
C17_Witness ==
  /\ last.op = "tokenize"
  /\ last.arg = <<" ", " ", "b", "F", "n", " ", "E", " ">>
  /\ last.out = << <<"b">>, <<"a">> >>

StepOk(step) == [step |-> step, res |-> "ok"]

\* The function a step of the bootstrap calls, as last.op names it.
OpOf(step) ==
  CASE step = "runMigrations" -> "migrate"
    [] step = "seedDatabaseIfEmpty" -> "seed"
    [] OTHER -> "list"

\* C18: in every attempt of the bootstrap the steps are calls of
\* runMigrations, seedDatabaseIfEmpty, listHadithByCollection in that order,
\* each made only after the one before returned normally; a step that
\* raises is the last of its attempt, its message becomes errorMessage, and
\* isReady is true when the attempt is over, error or not; Try Again is
\* possible only with an error shown, clears it, and starts an attempt that
\* begins with runMigrations.
C18_BootstrapOrder ==
  [][ /\ app'.pc = "runMigrations" => app'.ran = <<>>
      /\ app'.pc = "seedDatabaseIfEmpty" => app'.ran = <<StepOk("runMigrations")>>
      /\ app'.pc = "listHadithByCollection" =>
           app'.ran = <<StepOk("runMigrations"), StepOk("seedDatabaseIfEmpty")>>
      /\ \A i \in 1..Len(app'.ran) :
           /\ app'.ran[i].step =
                <<"runMigrations", "seedDatabaseIfEmpty", "listHadithByCollection">>[i]
           /\ app'.ran[i].res # "ok" => i = Len(app'.ran) /\ app'.ran[i].res = "DBError"
      /\ Len(app'.ran) = Len(app.ran) + 1 =>
           /\ last'.op = OpOf(app'.ran[Len(app'.ran)].step)
           /\ last'.res = app'.ran[Len(app'.ran)].res
           /\ app.pc = app'.ran[Len(app'.ran)].step
      /\ last' # last => Len(app'.ran) = Len(app.ran) + 1 \/ last'.res = "crash"
      /\ app'.pc = "catch" => app'.ran # <<>> /\ app'.ran[Len(app'.ran)].res = "DBError"
      /\ app.pc = "catch" =>
           /\ app'.pc = "finally"
           /\ app'.errorMessage = last.err.message /\ app'.errorMessage # NoMessage
      /\ app.pc = "finally" => app'.pc = "idle"
      /\ app'.pc = "idle" =>
           /\ app'.isReady
           /\ app'.errorMessage # NoMessage <=>
                \E i \in 1..Len(app'.ran) : app'.ran[i].res # "ok"
           /\ app'.errorMessage = NoMessage => Len(app'.ran) = 3
      /\ app.pc = "idle" =>
           /\ app.errorMessage # NoMessage
           /\ app'.errorMessage = NoMessage /\ ~app'.isReady
           /\ app'.pc = "runMigrations" ]_vars

\* C18 witness: seedDatabaseIfEmpty raised in an attempt, the error was
\* shown, and Try Again has just started the next attempt.
C18_Witness ==
  /\ app.pc = "runMigrations" /\ app.ran = <<>>
  /\ app.errorMessage = NoMessage /\ ~app.isReady
  /\ last.op = "seed" /\ last.res = "DBError"

\* The store after a first start on an empty database that nothing
\* interrupts: runMigrations, then seedDatabaseIfEmpty.
CleanInstall(items) ==
  LET m == runMigrations(Start(EmptyDb, Closed), NoFaults)
  IN  seedDatabaseIfEmpty(Start(m.work, [open |-> m.open, fk |-> m.fk]), items,
                          NoFaults).work

\* C19: after a seedDatabaseIfEmpty call that entered the fresh import and
\* raised or died, the flag is not "1" and the hadith table is empty, and
\* runMigrations leaves it so; the next seedDatabaseIfEmpty call enters the
\* fresh import again (unless the environment breaks it before), and when
\* it returns with no INSERT failed, hadith, collections and the flag are
\* what an uninterrupted first start leaves.
C19_FailedImportIsRetried ==
  /\ (last.op = "seed" /\ last.path = "import" /\ last.res # "ok") =>
       app.failedImport
  /\ app.failedImport => ~FlagIsOne(db) /\ db.hadith = <<>>
  /\ app.retry =>
       /\ last.op = "seed"
       /\ last.path \in {"import", "none"}
       /\ last.path = "none" => last.env /\ last.res # "ok"
       /\ (last.res = "ok" /\ "failed" \notin Range(last.rowlog)) =>
            /\ db.hadith = CleanInstall(seedData).hadith
            /\ db.collections = CleanInstall(seedData).collections
            /\ db.seeded = CleanInstall(seedData).seeded
            /\ FlagIsOne(db)

\* C19 witness: the import of three items, interrupted before, has now
\* gone through.
C19_Witness ==
  /\ app.retry /\ last.op = "seed" /\ last.res = "ok" /\ last.path = "import"
  /\ seedData = <<ItemA1b, ItemB2, ItemA1>>
  /\ db.hadith = <<HadithRowOf(ItemB2), HadithRowOf(ItemA1)>>
  /\ FlagIsOne(db)

\* The row of db.hadith that holds the (collection, id) of item, if any.
Survives(item) ==
  \E i \in 1..Len(db.hadith) :
    db.hadith[i].collection = item.collection /\ db.hadith[i].id = item.id

\* C20 (as claimed): every row with a uid has uid = collection ":" id, and
\* after a fresh import that returned, two valid items of different
\* (collection, id) whose INSERT did not fail both have their row.
C20_UidIsInjective ==
  /\ \A i \in 1..Len(db.hadith) :
       db.hadith[i].uid # NULL =>
         db.hadith[i].uid = db.hadith[i].collection \o <<":">> \o db.hadith[i].id
  /\ (last.op = "seed" /\ last.path = "import" /\ last.res = "ok") =>
       \A i, j \in 1..Len(seedData) :
         ( /\ isValidSeedItem(seedData[i]) /\ isValidSeedItem(seedData[j])
           /\ <<seedData[i].collection, seedData[i].id>>
                # <<seedData[j].collection, seedData[j].id>>
           /\ last.rowlog[i] # "failed" /\ last.rowlog[j] # "failed" )
         => Survives(seedData[i]) /\ Survives(seedData[j])

====
